---- MODULE Spec2Model ----
(***************************************************************************)
(* Model of the real-time messaging client ChatWebSocketNative             *)
(* (src/unnamed/part_006, imported elsewhere as '@/lib/ws-native').        *)
(*                                                                         *)
(* The client instance, the Socket.IO sockets it creates, the gateway      *)
(* handshake (/webchat/init) and the server side of the room protocol are  *)
(* modelled as one state machine.  Every handler of the source is an       *)
(* operator from machine state to machine state; an action applies one     *)
(* handler to the current state.  Time is Date.now() in milliseconds.      *)
(***************************************************************************)
EXTENDS Integers, Sequences, FiniteSets, TLC

(***************************************************************************)
(* Program constants                                                       *)
(***************************************************************************)
MESSAGE_CACHE_TTL == 60000
maxReconnectAttempts == 5
ExpiryMarginMs == 60000
MinRefreshMs == 60000
DefaultExpiresIn == 900
maxRetries == 3
BackoffBaseMs == 1000
BackoffMaxMs == 5000

(***************************************************************************)
(* Bounds of the model                                                     *)
(***************************************************************************)
TickMs == 20000
MaxTime == 140000
MaxSockets == 1
MaxPending == 2
MaxConvListeners == 2
MaxInits == 2
MaxLog == 3
MaxTokens == 3
MaxBuffered == 1
MaxErrors == 6
MaxLiveSockets == 2

(***************************************************************************)
(* JavaScript values.  Undef stands for undefined / null / a missing       *)
(* field; Falsy is what `!x` and `x || y` test.                            *)
(***************************************************************************)
Undef == "<undefined>"
None == [none |-> TRUE]
Falsy(x) == x = Undef \/ x = ""
Or2(a, b) == IF Falsy(a) THEN b ELSE a
Or3(a, b, c) == Or2(a, Or2(b, c))
\* `${x}` in a template literal
Str(x) == IF x = Undef THEN "undefined" ELSE x

ConvIds == {"c1", "c2"}
SessionId == "s1"

(***************************************************************************)
(* Raw inbound message payloads (after `data.message || data`).            *)
(***************************************************************************)
NoFields ==
  [id |-> Undef, message_id |-> Undef, messageId |-> Undef,
   text |-> Undef, message_text |-> Undef, message |-> Undef,
   sender_type |-> Undef, sender |-> Undef, sender_id |-> Undef,
   senderId |-> Undef, sender_name |-> Undef, senderName |-> Undef,
   conversation_id |-> Undef,
   timestamp |-> Undef, created_at |-> Undef, inserted_at |-> Undef]

RawNames == {"pre", "post", "preC", "postC", "bot", "system", "other", "named"}

Raw(n) ==
  CASE n = "pre"    -> [NoFields EXCEPT !.message_text = "hi", !.sender_type = "user",
                                        !.id = "evt-1"]
    [] n = "post"   -> [NoFields EXCEPT !.text = "hi", !.sender = "user",
                                        !.message_id = "msg-42", !.conversation_id = "c1"]
    [] n = "preC"   -> [NoFields EXCEPT !.message_text = "hi", !.sender_type = "user",
                                        !.id = "evt-1", !.conversation_id = "c1"]
    [] n = "postC"  -> [NoFields EXCEPT !.text = "hi", !.sender_type = "user",
                                        !.message_id = "msg-42", !.conversation_id = "c1"]
    [] n = "bot"    -> [NoFields EXCEPT !.text = "hi", !.sender_type = "bot",
                                        !.id = "evt-2", !.conversation_id = "c1"]
    [] n = "system" -> [NoFields EXCEPT !.text = "hi", !.sender_type = "system",
                                        !.message_id = "msg-43", !.conversation_id = "c1"]
    [] n = "other"  -> [NoFields EXCEPT !.text = "yo", !.sender_type = "agent",
                                        !.message_id = "msg-44", !.conversation_id = "c2"]
    [] n = "named"  -> [NoFields EXCEPT !.text = "hey", !.sender_type = "agent",
                                        !.sender_id = "a1", !.sender_name = "Ann",
                                        !.message_id = "msg-45", !.conversation_id = "c1"]

(***************************************************************************)
(* getMessageKey: the content-based dedup key.                             *)
(***************************************************************************)
KeySender(sender) ==
  IF sender = "agent" THEN "human" ELSE IF sender = "bot" THEN "ai" ELSE sender

getMessageKey(data) ==
  LET text == Or2(data.text, data.message_text)
      sender == Or2(data.sender_type, data.sender)
  IN Str(data.conversation_id) \o ":" \o Str(KeySender(sender)) \o ":" \o Str(text)

(***************************************************************************)
(* Rooms                                                                   *)
(***************************************************************************)
SessionRoom(sid) == "session:" \o sid
ConversationRoom(cid) == "conversation:" \o cid
\* currentRoom?.startsWith('conversation:')
InConversationRoom(room) == room \in {ConversationRoom(c) : c \in ConvIds}

(***************************************************************************)
(* State                                                                   *)
(***************************************************************************)
VARIABLES
  now,      \* Date.now()
  ws,       \* the fields of the ChatWebSocketNative instance
  socks,    \* the Socket objects created by io(), by slot
  inits,    \* initialize() calls suspended at `await fetch(...)`
  timers,   \* pending setTimeout timers: records [id, due]
  tokens,   \* expiry (ms) of each token the gateway has issued, by token id
  obs,      \* what an observer of the client saw last (history)
  watch,    \* the fields of obs the observer records; never changes
  hook,     \* the refs and timers of a useOnlineUsers hook (src/unnamed/part_005)
  api       \* a ChatAPI.sendMessage call (src/lib/api.ts)

vars == <<now, ws, socks, inits, timers, tokens, obs, watch, hook, api>>

(***************************************************************************)
(* transformMessageNewToMessage: the normalizer.                           *)
(***************************************************************************)
SenderRole(sender_type) ==
  IF sender_type = "user" THEN "user"
  ELSE IF sender_type = "agent" THEN "agent"
  ELSE IF sender_type = "human" THEN "agent"
  ELSE "bot"

\* new Date().toISOString()
NowStamp == ToString(now)

\* The normalizer with the generic id taken first
transformMessageNewToMessage_IdFirst(data) ==
  LET sid == Or2(data.sender_id, data.sender)
  IN [data EXCEPT
        !.id = Or3(data.id, data.message_id, data.messageId),
        !.text = Or3(data.text, data.message_text, data.message),
        !.sender = SenderRole(data.sender_type),
        !.senderId = IF ~Falsy(data.sender) /\ Falsy(sid) THEN data.sender ELSE sid,
        !.senderName = data.sender_name,
        !.timestamp = Or2(data.timestamp,
                          Or3(data.created_at, data.inserted_at, NowStamp))]

transformMessageNewToMessage(data) ==
  LET sid == Or2(data.sender_id, data.sender)
  IN [data EXCEPT
        !.id = Or3(data.message_id, data.messageId, data.id),
        !.text = Or3(data.text, data.message_text, data.message),
        !.sender = SenderRole(data.sender_type),
        !.senderId = IF ~Falsy(data.sender) /\ Falsy(sid) THEN data.sender ELSE sid,
        !.senderName = data.sender_name,
        !.timestamp = Or2(data.timestamp,
                          Or3(data.created_at, data.inserted_at, NowStamp))]

\* The slots for the Socket objects the client has created
SockIds == DOMAIN socks
PresenceToken == 0 - 1

FreeSock ==
  [st |-> "free", kind |-> "none", attached |-> FALSE, base |-> FALSE, conv |-> 0,
   once |-> <<>>, joinedQ |-> <<>>, buf |-> <<>>, rooms |-> {}, token |-> 0,
   auto |-> FALSE, tries |-> 0]

\* The part of the state the handlers transform.  ok turns FALSE when a handler
\* would exceed a bound of the model; such steps are not taken.
M == [ws |-> ws, socks |-> socks, inits |-> inits, timers |-> timers,
      tokens |-> tokens, obs |-> obs, hook |-> hook, ok |-> TRUE]

\* The client's own state, without the history kept in obs.
Program(m) == <<m.ws, m.socks, m.inits, m.timers, m.tokens>>

Apply(m) ==
  /\ m.ok
  /\ ws' = m.ws
  /\ socks' = m.socks
  /\ inits' = m.inits
  /\ timers' = m.timers
  /\ tokens' = m.tokens
  /\ obs' = [f \in DOMAIN obs |-> IF f \in watch THEN m.obs[f] ELSE obs[f]]
  /\ watch' = watch
  /\ hook' = m.hook
  /\ api' = api

Connected(m, s) == s # 0 /\ m.socks[s].st = "connected"

(***************************************************************************)
(* socket.emit on a socket: the server applies join/leave requests in      *)
(* order and answers every join:conversation with a 'joined' confirmation. *)
(* A socket that is not connected buffers the packet until it connects.    *)
(***************************************************************************)
ServerApply(sk, e) ==
  CASE e.ev = "join:session" -> [sk EXCEPT !.rooms = @ \cup {SessionRoom(e.id)}]
    [] e.ev = "leave:session" -> [sk EXCEPT !.rooms = @ \ {SessionRoom(e.id)}]
    [] e.ev = "join:conversation" ->
         [sk EXCEPT !.rooms = @ \cup {ConversationRoom(e.id)},
                    !.joinedQ = Append(@, e.id)]
    [] OTHER -> sk

Emit(m, s, e) ==
  IF s = 0 THEN m
  ELSE IF m.socks[s].st = "connected"
    THEN [m EXCEPT !.socks[s] = ServerApply(@, e),
                   !.ok = @ /\ Len(ServerApply(m.socks[s], e).joinedQ) <= MaxPending]
  ELSE IF m.socks[s].st = "connecting"
    THEN [m EXCEPT !.socks[s].buf = Append(@, e),
                   !.ok = @ /\ Len(m.socks[s].buf) < MaxBuffered]
  ELSE m

(***************************************************************************)
(* setupMessageEventListeners / switchToConversationRoom                   *)
(***************************************************************************)
setupMessageEventListeners(m) ==
  LET s == m.ws.socket IN
  IF s = 0 THEN m
  ELSE LET off == IF InConversationRoom(m.ws.currentRoom)
                    THEN [m EXCEPT !.socks[s].base = FALSE, !.socks[s].conv = 0]
                    ELSE m
       IN [off EXCEPT !.socks[s].conv = @ + 1,
                      !.ok = @ /\ off.socks[s].conv < MaxConvListeners]

switchToConversationRoom(m, conversationId) ==
  LET s == m.ws.socket IN
  IF ~Connected(m, s) THEN m
  ELSE LET m1 == setupMessageEventListeners(m)
           m2 == Emit(m1, s, [ev |-> "join:conversation", id |-> conversationId])
       IN [m2 EXCEPT !.ws.currentRoom = ConversationRoom(conversationId),
                     !.socks[s].once = Append(@, conversationId),
                     !.ok = @ /\ Len(m2.socks[s].once) < MaxPending]

\* The handler registered by socket.once('joined', ...) for one handover:
\* it leaves the session room and calls onConversationCreated(conversationId).
\* Each run is recorded with the conversation whose confirmation ran it (by).
JoinedOnce(m, conversationId, by) ==
  LET left == m.ws.presenceSessionId # Undef
      m1 == IF left
              THEN Emit(m, m.ws.socket,
                        [ev |-> "leave:session", id |-> m.ws.presenceSessionId])
              ELSE m
  IN [m1 EXCEPT !.obs.confirmed = @ \cup
                  {[handover |-> conversationId, by |-> by, left |-> left]}]

RECURSIVE RunOnce(_, _, _)
RunOnce(m, handlers, by) ==
  IF handlers = <<>> THEN m
  ELSE RunOnce(JoinedOnce(m, Head(handlers), by), Tail(handlers), by)

(***************************************************************************)
(* Dedup cache: hasProcessedMessage / markMessageProcessed /               *)
(* cleanMessageCache.  processedMessageKeys is a function key -> timestamp.*)
(***************************************************************************)
\* hasProcessedMessage without the age test: a key once seen stays a duplicate.
hasProcessedMessage_NoTTL(m, messageKey) ==
  /\ messageKey \in DOMAIN m.ws.processedMessageKeys
  /\ m.ws.processedMessageKeys[messageKey] # 0

hasProcessedMessage(m, messageKey) ==
  /\ messageKey \in DOMAIN m.ws.processedMessageKeys
  /\ m.ws.processedMessageKeys[messageKey] # 0
  /\ (now - m.ws.processedMessageKeys[messageKey]) < MESSAGE_CACHE_TTL

\* cleanMessageCache without the deletion of expired entries
cleanMessageCache_KeepsAll(cache) == cache

cleanMessageCache(cache) ==
  LET keep == {k \in DOMAIN cache : ~(now - cache[k] > MESSAGE_CACHE_TTL)}
  IN [k \in keep |-> cache[k]]

\* The entries of the cache that are older than the TTL
Expired(cache) == {k \in DOMAIN cache : now - cache[k] > MESSAGE_CACHE_TTL}

markMessageProcessed(m, messageKey) ==
  LET cache == m.ws.processedMessageKeys
      set == [k \in DOMAIN cache \cup {messageKey} |->
                IF k = messageKey THEN now ELSE cache[k]]
      after == cleanMessageCache(set)
  IN [m EXCEPT !.ws.processedMessageKeys = after,
               !.obs.insert =
                 [key |-> messageKey,
                  recorded |-> messageKey \in DOMAIN after /\ after[messageKey] = now,
                  had |-> Expired(set) # {},
                  stale |-> Expired(after),
                  n |-> IF m.obs.msgLog = <<>> THEN 0
                        ELSE m.obs.msgLog[Len(m.obs.msgLog)].n]]

(***************************************************************************)
(* handleMessage: normalize (again) and hand to callbacks.onMessage.  The  *)
(* delivery is recorded on the entry of the event being dispatched.        *)
(***************************************************************************)
OnMessage(m, message) ==
  LET i == Len(m.obs.msgLog)
  IN [m EXCEPT !.obs.msgLog[i].n = @ + 1, !.obs.delivered = message]

handleMessage(m, data) == OnMessage(m, transformMessageNewToMessage(data))

(***************************************************************************)
(* Message listeners.  Three families exist: those connect() registers     *)
(* ("chat"), those setupPresenceEventListeners registers ("presence") and  *)
(* those setupMessageEventListeners registers ("conv").                    *)
(***************************************************************************)
\* connect(): 'message', 'meta_message_created', 'message:new'
ChatListener(m, ev, raw) ==
  IF ev = "message" THEN handleMessage(m, raw)
  ELSE LET messageKey == getMessageKey(raw) IN
       IF hasProcessedMessage(m, messageKey) THEN m
       ELSE LET m1 == markMessageProcessed(m, messageKey) IN
            IF ev = "meta_message_created" THEN handleMessage(m1, raw)
            ELSE handleMessage(m1, transformMessageNewToMessage(raw))

\* setupPresenceEventListeners: 'meta_message_created', 'message:new'
PresenceListener(m, ev, raw) ==
  IF ev = "message" THEN m
  ELSE IF InConversationRoom(m.ws.currentRoom) THEN m
  ELSE LET messageKey == getMessageKey(raw) IN
       IF hasProcessedMessage(m, messageKey) THEN m
       ELSE LET m1 == markMessageProcessed(m, messageKey)
                message == transformMessageNewToMessage(raw)
                messageConversationId == message.conversation_id
            IN IF ~Falsy(messageConversationId)
                 THEN IF Falsy(m1.ws.conversationId)
                        THEN handleMessage(
                               switchToConversationRoom(
                                 [m1 EXCEPT !.ws.conversationId = messageConversationId],
                                 messageConversationId),
                               message)
                        ELSE IF messageConversationId = m1.ws.conversationId
                               THEN handleMessage(m1, message)
                               ELSE m1
                 ELSE handleMessage(m1, message)

\* !this.conversationId || !message.conversation_id || message.conversation_id === this.conversationId
ConversationFilter(m, data) ==
  \/ Falsy(m.ws.conversationId)
  \/ Falsy(data.conversation_id)
  \/ data.conversation_id = m.ws.conversationId

\* setupMessageEventListeners: 'meta_message_created', 'message:new', 'message'
ConvListener(m, ev, raw) ==
  IF ev = "message"
    THEN IF ConversationFilter(m, raw) THEN handleMessage(m, raw) ELSE m
  ELSE LET messageKey == getMessageKey(raw) IN
       IF hasProcessedMessage(m, messageKey) THEN m
       ELSE LET m1 == markMessageProcessed(m, messageKey)
                message == transformMessageNewToMessage(raw)
            IN IF ConversationFilter(m1, message) THEN handleMessage(m1, message) ELSE m1

\* The listeners of socket s for the message events, in registration order.
\* The emitter iterates over a copy, so a listener added while an event is
\* dispatched does not see that event.
Listeners(sk) ==
  (IF sk.base THEN <<sk.kind>> ELSE <<>>) \o [i \in 1..sk.conv |-> "conv"]

RunListener(m, l, ev, raw) ==
  CASE l = "chat" -> ChatListener(m, ev, raw)
    [] l = "presence" -> PresenceListener(m, ev, raw)
    [] l = "conv" -> ConvListener(m, ev, raw)

RECURSIVE Dispatch(_, _, _, _)
Dispatch(m, ls, ev, raw) ==
  IF ls = <<>> THEN m
  ELSE Dispatch(RunListener(m, Head(ls), ev, raw), Tail(ls), ev, raw)

(***************************************************************************)
(* setupPresenceEventListeners: conversation discovery                     *)
(***************************************************************************)
\* 'session:update' with data.conversation_id = cid (Undef when absent)
OnSessionUpdate(m, cid) ==
  IF ~Falsy(cid) /\ Falsy(m.ws.conversationId)
    THEN switchToConversationRoom([m EXCEPT !.ws.conversationId = cid], cid)
    ELSE m

\* 'conversation:created' {conversation_id} and 'conversation:new' {id | conversation_id}
OnConversationCreated(m, cid) ==
  IF ~Falsy(cid)
    THEN switchToConversationRoom([m EXCEPT !.ws.conversationId = cid], cid)
    ELSE m

\* 'conversation:update' {id | conversation_id | conversationId}
OnConversationUpdate(m, cid) ==
  IF Falsy(cid) THEN m
  ELSE LET shouldSwitch == \/ Falsy(m.ws.conversationId)
                           \/ ~InConversationRoom(m.ws.currentRoom)
       IN IF shouldSwitch \/ m.ws.conversationId # cid
            THEN switchToConversationRoom([m EXCEPT !.ws.conversationId = cid], cid)
            ELSE m

\* 'conversation:closed' {conversation_id}
OnConversationClosed(m, cid) ==
  IF cid = m.ws.conversationId
    THEN [m EXCEPT !.obs.closed = @ + 1]
    ELSE m

(***************************************************************************)
(* isTokenExpired / scheduleTokenRefresh                                   *)
(***************************************************************************)
\* isTokenExpired without the one-minute margin
isTokenExpired_NoMargin(m) ==
  IF m.ws.tokenExpiresAt = 0 THEN TRUE
  ELSE now >= m.ws.tokenExpiresAt

isTokenExpired(m) ==
  IF m.ws.tokenExpiresAt = 0 THEN TRUE
  ELSE now >= (m.ws.tokenExpiresAt - ExpiryMarginMs)

clearTimeout(m, id) == [m EXCEPT !.timers = {t \in @ : t.id # id}]

NewTimerId(m) ==
  CHOOSE i \in 1..(Cardinality(m.timers) + 1) :
    /\ \A t \in m.timers : t.id # i
    /\ \A j \in 1..(i - 1) : \E t \in m.timers : t.id = j

\* scheduleTokenRefresh without the clearTimeout of the existing timer
scheduleTokenRefresh_NoClear(m, refreshInMs) ==
  LET m2 == [m EXCEPT !.obs.disc = FALSE]
  IN IF refreshInMs < MinRefreshMs THEN m2
     ELSE LET id == NewTimerId(m2)
          IN [m2 EXCEPT !.timers = @ \cup {[id |-> id, due |-> now + refreshInMs,
                                            set |-> now, ms |-> refreshInMs]},
                        !.ws.tokenRefreshTimer = id]

scheduleTokenRefresh(m, refreshInMs) ==
  LET m1 == IF m.ws.tokenRefreshTimer # 0 THEN clearTimeout(m, m.ws.tokenRefreshTimer)
            ELSE m
      m2 == [m1 EXCEPT !.obs.disc = FALSE]
  IN IF refreshInMs < MinRefreshMs THEN m2
     ELSE LET id == NewTimerId(m2)
          IN [m2 EXCEPT !.timers = @ \cup {[id |-> id, due |-> now + refreshInMs,
                                            set |-> now, ms |-> refreshInMs]},
                        !.ws.tokenRefreshTimer = id]

(***************************************************************************)
(* Sockets: io(), socket.disconnect(), socket.removeAllListeners()         *)
(***************************************************************************)
\* A slot whose socket can raise no further event and is not this.socket.
Reusable(m, s) == m.socks[s].st \in {"free", "closed"} /\ m.ws.socket # s

HasSlot(m) == \E s \in SockIds : Reusable(m, s)
NewSlot(m) == CHOOSE s \in SockIds : Reusable(m, s) /\ \A r \in 1..(s - 1) : ~Reusable(m, r)

removeAllListeners(m, s) ==
  [m EXCEPT !.socks[s].attached = FALSE, !.socks[s].base = FALSE,
            !.socks[s].conv = 0, !.socks[s].once = <<>>]

\* io(url, {auth: {token}, reconnection: true, ...}): the socket starts connecting.
Io(m, kind, token) ==
  IF ~HasSlot(m) THEN [m EXCEPT !.ok = FALSE]
  ELSE LET s == NewSlot(m)
       IN [m EXCEPT !.socks[s] = [FreeSock EXCEPT !.st = "connecting", !.kind = kind,
                                                  !.attached = TRUE, !.base = TRUE,
                                                  !.token = token],
                    !.ws.socket = s,
                    !.obs.attempt = [via |-> "connect", token |-> token,
                                     stale |-> m.obs.reinit]]

(***************************************************************************)
(* initialize(): the part before `await fetch` and the part after it.      *)
(***************************************************************************)
placeholderValues == {"your-tenant-id", "tenant-id", "your_tenant_id", "tenant_id", ""}

\* String(x).toLowerCase() on the identifiers the model uses
ToLower(x) ==
  CASE x = "Tenant-ID" -> "tenant-id"
    [] x = "TENANT_ID" -> "tenant_id"
    [] OTHER -> x

IsPlaceholder(x) == ToLower(Str(x)) \in placeholderValues
Valid(x) == ~Falsy(x) /\ ~IsPlaceholder(x)

StartInitialize(m, origin) ==
  [m EXCEPT !.inits = Append(@, origin),
            !.ok = @ /\ Len(m.inits) < MaxInits]

\* expiresInMs * 0.8: the refresh is due at 80% of the token's lifetime
RefreshDelay(expiresInMs) == (expiresInMs * 8) \div 10

\* The statements after `await response.json()`, lines 594-693.
InitializeSucceeds(m, data) ==
  LET expiresInMs == (IF data.expires_in = 0 THEN DefaultExpiresIn ELSE data.expires_in)
                       * 1000
      token == Len(m.tokens) + 1
      m1 == [m EXCEPT !.ws.presenceSessionId = SessionId,
                      !.ws.wsToken = token,
                      !.ws.wsServerUrl = TRUE,
                      !.ws.tokenExpiresAt = now + expiresInMs,
                      !.tokens = Append(@, now + expiresInMs),
                      !.obs.reinit = FALSE,
                      !.ok = @ /\ Len(m.tokens) < MaxTokens]
      m3 == scheduleTokenRefresh(m1, RefreshDelay(expiresInMs))
      m2 == [m3 EXCEPT !.obs.sched =
               [lifetime |-> expiresInMs,
                had |-> m.timers # {},
                pending |-> Cardinality(m3.timers),
                timer |-> \E t \in m3.timers :
                            /\ t.id = m3.ws.tokenRefreshTimer
                            /\ t.due = now + RefreshDelay(expiresInMs)]]
      early == IF ~Falsy(data.integration_id) THEN data.integration_id
               ELSE m2.ws.integrationId
      finalTenantId ==
        IF Valid(data.tenant_id) THEN data.tenant_id
        ELSE IF Valid(data.jwt_tenant_id) THEN data.jwt_tenant_id
        ELSE IF Valid(m2.ws.tenantId) THEN m2.ws.tenantId
        ELSE Undef
      finalIntegrationId ==
        IF Valid(data.integration_id) THEN data.integration_id
        ELSE IF Valid(data.jwt_integration_id) THEN data.jwt_integration_id
        ELSE Undef
  IN [m2 EXCEPT !.ws.tenantId = finalTenantId,
                !.ws.integrationId = Or2(finalIntegrationId, early)]

\* setInterval(fetchOnlineUsers, pollingInterval)
NewIntervalId(h) ==
  CHOOSE i \in 1..(Cardinality(h.intervals) + 1) : i \notin h.intervals

\* useOnlineUsers: if (!pollingIntervalRef.current) pollingIntervalRef.current =
\* setInterval(...), in the onError callback (part_005:134-141) and in the
\* catch block of initializeWebSocket (175-183)
PollingFallback(h) ==
  IF h.pollingIntervalRef = 0
    THEN [h EXCEPT !.pollingIntervalRef = NewIntervalId(h),
                   !.intervals = @ \cup {NewIntervalId(h)}]
    ELSE h

\* callbacks.onError?.(error): the callback is the hook's when the hook made
\* the instance
OnError(m) ==
  [m EXCEPT !.obs.errors = @ + 1,
            !.hook = IF @.created THEN PollingFallback(@) ELSE @]

\* The catch block with the token forgotten
InitializeFails_ForgetsToken(m) == OnError([m EXCEPT !.ws.wsToken = 0])

\* The catch block, lines 694-698: onError is called and null returned.
InitializeFails(m) == OnError(m)

(***************************************************************************)
(* 'disconnect' listeners and socket.disconnect()                          *)
(***************************************************************************)
\* connect(): socket.on('disconnect', (reason) => ...), lines 830-846
ChatOnDisconnect(m, reason) ==
  LET isAuthError == reason = "io server disconnect"
  IN IF m.ws.shouldReconnect /\ (isAuthError \/ isTokenExpired(m))
       THEN StartInitialize([m EXCEPT !.obs.reinit = TRUE], "handler")
       ELSE m

\* connectPresence(): socket.on('disconnect', ...) only calls onDisconnect
OnDisconnect(m, s, reason) ==
  LET m1 == [m EXCEPT !.obs.disc = TRUE] IN
  IF ~m.socks[s].attached THEN m1
  ELSE IF m.socks[s].kind = "chat" THEN ChatOnDisconnect(m1, reason)
  ELSE m1

\* The connection of socket s ends: the server forgets its rooms and what was
\* in flight to it is lost.
Closed(sk, st) == [sk EXCEPT !.st = st, !.rooms = {}, !.joinedQ = <<>>]

\* socket.disconnect(): a connected socket raises 'disconnect' synchronously.
SocketDisconnect(m, s) ==
  IF m.socks[s].st = "connected"
    THEN OnDisconnect([m EXCEPT !.socks[s] = Closed(@, "closed")], s,
                      "io client disconnect")
    ELSE [m EXCEPT !.socks[s] = Closed(@, "closed")]

(***************************************************************************)
(* connect() / connectPresence() / disconnect()                            *)
(***************************************************************************)
\* What a connect() call found and did: whether token and server URL were
\* set, whether isTokenExpired() held, whether it created a socket and
\* whether it called onError.
ConnectRecord(m, after, created, error) ==
  [after EXCEPT !.obs.conn = [credential |-> m.ws.wsToken # 0 /\ m.ws.wsServerUrl,
                              expired |-> isTokenExpired(m),
                              created |-> created, error |-> error],
                 !.obs.lost = @ /\ ~created]

connect(m) ==
  LET s == m.ws.socket IN
  IF m.ws.wsToken = 0 \/ ~m.ws.wsServerUrl
    THEN ConnectRecord(m, m, FALSE, TRUE)
  ELSE IF Connected(m, s) THEN ConnectRecord(m, m, FALSE, FALSE)
  ELSE LET m1 == IF s # 0
                   THEN [SocketDisconnect(removeAllListeners(m, s), s)
                           EXCEPT !.ws.socket = 0]
                   ELSE m
       IN ConnectRecord(m, Io(m1, "chat", m1.ws.wsToken), TRUE, FALSE)

connectPresence(m, wsToken) ==
  LET s == m.ws.socket
      m1 == [m EXCEPT !.ws.presenceSessionId = SessionId,
                      !.ws.wsToken = wsToken,
                      !.ws.wsServerUrl = TRUE]
      m2 == IF Connected(m1, s)
              THEN [SocketDisconnect(removeAllListeners(m1, s), s)
                      EXCEPT !.ws.socket = 0]
              ELSE m1
  IN Io(m2, "presence", wsToken)

\* disconnect() without the cancellation of the refresh timer
disconnect_KeepsTimer(m) ==
  LET m1 == [m EXCEPT !.ws.shouldReconnect = FALSE, !.obs.down = TRUE,
                      !.obs.cancelled = TRUE, !.obs.lost = FALSE]
  IN IF m1.ws.socket # 0
       THEN [SocketDisconnect(m1, m1.ws.socket) EXCEPT !.ws.socket = 0]
       ELSE m1

disconnect(m) ==
  LET m1 == [m EXCEPT !.ws.shouldReconnect = FALSE, !.obs.down = TRUE,
                      !.obs.cancelled = TRUE, !.obs.lost = FALSE]
      m2 == IF m1.ws.tokenRefreshTimer # 0
              THEN [clearTimeout(m1, m1.ws.tokenRefreshTimer)
                      EXCEPT !.ws.tokenRefreshTimer = 0]
              ELSE m1
  IN IF m2.ws.socket # 0
       THEN [SocketDisconnect(m2, m2.ws.socket) EXCEPT !.ws.socket = 0]
       ELSE m2

(***************************************************************************)
(* 'connect' listeners                                                     *)
(***************************************************************************)
Opened(m, kind, known, joined) ==
  [m EXCEPT !.obs.open = [kind |-> kind, known |-> known, joined |-> joined]]

\* connect(): socket.on('connect', ...), lines 798-817
ChatOnConnect(m) ==
  LET m1 == [m EXCEPT !.ws.reconnectAttempts = 0]
      s == m1.ws.socket
      known == ~Falsy(m1.ws.conversationId)
  IN IF known /\ s # 0
       THEN Opened(switchToConversationRoom(m1, m1.ws.conversationId), "chat", known,
                   IF Connected(m1, s) THEN "conversation" ELSE "none")
     ELSE IF ~Falsy(m1.ws.presenceSessionId) /\ s # 0
       THEN Opened([Emit(m1, s, [ev |-> "join:session", id |-> m1.ws.presenceSessionId])
                      EXCEPT !.ws.currentRoom = SessionRoom(m1.ws.presenceSessionId)],
                   "chat", known, "session")
     ELSE Opened(m1, "chat", known, "none")

\* connectPresence(): socket.on('connect', ...), lines 212-223
PresenceOnConnect(m) ==
  LET m1 == [m EXCEPT !.ws.reconnectAttempts = 0]
      s == m1.ws.socket
      known == ~Falsy(m1.ws.conversationId)
  IN IF s # 0
       THEN Opened([Emit(m1, s, [ev |-> "join:session", id |-> SessionId])
                      EXCEPT !.ws.currentRoom = SessionRoom(SessionId)],
                   "presence", known, "session")
       ELSE Opened(m1, "presence", known, "none")

RECURSIVE Flush(_, _)
Flush(sk, buf) == IF buf = <<>> THEN sk ELSE Flush(ServerApply(sk, Head(buf)), Tail(buf))

\* The transport of socket s opens: buffered packets are sent, then 'connect'
\* is raised.
SocketOpens(m, s) ==
  LET sk == m.socks[s]
      m1 == [m EXCEPT !.socks[s] = Flush([sk EXCEPT !.st = "connected", !.buf = <<>>,
                                                     !.rooms = {}, !.joinedQ = <<>>,
                                                     !.auto = FALSE, !.tries = 0],
                                          sk.buf),
                      !.obs.attempt = IF sk.auto
                                        THEN [via |-> "retry", token |-> sk.token,
                                              stale |-> m.obs.reinit]
                                        ELSE @,
                      !.obs.auto = 0, !.obs.lost = FALSE]
  IN IF ~sk.attached THEN m1
     ELSE IF sk.kind = "chat" THEN ChatOnConnect(m1)
     ELSE PresenceOnConnect(m1)

(***************************************************************************)
(* The token refresh timer body, lines 1052-1072, and the continuations of *)
(* initialize() in its three callers.                                      *)
(***************************************************************************)
RefreshTimerBody(m) ==
  IF Connected(m, m.ws.socket) THEN StartInitialize(m, "timer") ELSE m

\* after `await this.initialize(...)` in the timer body
\* connect() called by the client itself: an automatic connection attempt
\* when it creates a socket.
AutoConnect(m) ==
  LET after == connect(m)
  IN IF after.obs.conn.created THEN [after EXCEPT !.obs.auto = @ + 1] ELSE after

\* The continuation of the timer body reconnecting whatever the socket was
RefreshContinue_AlwaysConnects(m, result) ==
  LET s == m.ws.socket
      after == IF result /\ s # 0 THEN AutoConnect(SocketDisconnect(m, s)) ELSE m
  IN [after EXCEPT !.obs.refresh =
        [result |-> result,
         connected |-> Connected(m, s),
         created |-> after.ws.socket # 0 /\ after.socks # m.socks
                     /\ after.socks[after.ws.socket].st = "connecting",
         inflight |-> Len(after.inits)]]

RefreshContinue(m, result) ==
  LET s == m.ws.socket
      after ==
        IF result /\ s # 0
          THEN LET wasConnected == m.socks[s].st = "connected"
                   m1 == SocketDisconnect(m, s)
               IN IF wasConnected THEN AutoConnect(m1) ELSE m1
          ELSE m
  IN [after EXCEPT !.obs.refresh =
        [result |-> result,
         connected |-> Connected(m, s),
         created |-> after.ws.socket # 0 /\ after.socks # m.socks
                     /\ after.socks[after.ws.socket].st = "connecting",
         inflight |-> Len(after.inits)]]

\* .then(() => { if (this.wsToken && this.wsServerUrl) this.connect(); })
HandlerContinue(m) ==
  IF m.ws.wsToken # 0 /\ m.ws.wsServerUrl THEN AutoConnect(m) ELSE m

\* useOnlineUsers, initializeWebSocket after `await wsRef.current.initialize()`
\* (part_005:168-183): a null result throws, and so does wsRef.current.connect()
\* once the cleanup has set wsRef.current to null; the catch block falls back
\* to polling.
HookContinue(m, initResult) ==
  IF initResult /\ m.hook.wsRef
    THEN connect([m EXCEPT !.obs.down = FALSE, !.obs.auto = 0])
    ELSE [m EXCEPT !.hook = PollingFallback(@)]

Continue(m, origin, result) ==
  CASE origin = "timer" -> RefreshContinue(m, result)
    [] origin = "handler" -> HandlerContinue(m)
    [] origin = "hook" -> HookContinue(m, result)
    [] OTHER -> m

(***************************************************************************)
(* sendMessage(text), lines 907-1006                                       *)
(***************************************************************************)
SendRecord(m, result, after) ==
  [connected |-> Connected(m, m.ws.socket),
   tenantId |-> m.ws.tenantId,
   integrationId |-> m.ws.integrationId,
   result |-> result,
   unchanged |-> after.ws = m.ws /\ after.socks = m.socks /\ after.timers = m.timers
                 /\ after.inits = m.inits /\ after.tokens = m.tokens]

Throw(m, error) ==
  [m EXCEPT !.obs.send = SendRecord(m, error, m), !.obs.sent = None]

\* sendMessage without the integration_id test
sendMessage_NoIntegrationCheck(m) ==
  LET isPlaceholder == ~Falsy(m.ws.tenantId) /\ IsPlaceholder(m.ws.tenantId) IN
  IF ~Connected(m, m.ws.socket) THEN Throw(m, "Socket.IO is not connected")
  ELSE IF Falsy(m.ws.tenantId) \/ isPlaceholder
    THEN Throw(m, IF isPlaceholder THEN "tenantId is a placeholder value"
                  ELSE "tenantId is required but not available")
  ELSE LET message == [tenantId |-> m.ws.tenantId, tenant_id |-> m.ws.tenantId,
                       conversation_id |-> m.ws.conversationId,
                       integration_id |-> m.ws.integrationId,
                       integrationId |-> m.ws.integrationId]
           m1 == Emit(m, m.ws.socket, [ev |-> "message", id |-> Undef])
       IN [m1 EXCEPT !.obs.sent = message,
                     !.obs.send = SendRecord(m, "ok", m1)]

sendMessage(m) ==
  LET isPlaceholder == ~Falsy(m.ws.tenantId) /\ IsPlaceholder(m.ws.tenantId) IN
  IF ~Connected(m, m.ws.socket) THEN Throw(m, "Socket.IO is not connected")
  ELSE IF Falsy(m.ws.tenantId) \/ isPlaceholder
    THEN Throw(m, IF isPlaceholder THEN "tenantId is a placeholder value"
                  ELSE "tenantId is required but not available")
  ELSE IF Falsy(m.ws.integrationId)
    THEN Throw(m, "integration_id is required but not available")
  ELSE LET message == [tenantId |-> m.ws.tenantId, tenant_id |-> m.ws.tenantId,
                       conversation_id |-> m.ws.conversationId,
                       integration_id |-> m.ws.integrationId,
                       integrationId |-> m.ws.integrationId]
           m1 == Emit(m, m.ws.socket, [ev |-> "message", id |-> Undef])
       IN [m1 EXCEPT !.obs.sent = message,
                     !.obs.send = SendRecord(m, "ok", m1)]

(***************************************************************************)
(* Initial state: the instance after its constructor                       *)
(***************************************************************************)
EmptyCache == [k \in {} |-> 0]

InitWs(tenant) ==
  [tenantId |-> tenant, integrationId |-> Undef, socket |-> 0,
   reconnectAttempts |-> 0, shouldReconnect |-> TRUE,
   conversationId |-> Undef, wsToken |-> 0, wsServerUrl |-> FALSE,
   tokenExpiresAt |-> 0, tokenRefreshTimer |-> 0,
   presenceSessionId |-> Undef, currentRoom |-> Undef,
   processedMessageKeys |-> EmptyCache]

\* confirmed: the handovers whose once('joined') handler the last 'joined' ran;
\* open: the last 'connect' event; attempt: the last connection attempt;
\* reinit: a disconnect asked for re-initialization and no initialize() has
\* succeeded since; auto: the connection attempts made by the client on its
\* own (sockets created by its own connect() calls and failed retries of the
\* transport) since the last open and the last connect() or connectPresence()
\* of the application; conn: the last connect() call; errors: the onError calls
\* of the step being taken; fail: the last failed initialize(), with the
\* number of its onError calls, whether it left the client's state as it was
\* (same) and whether another initialize() was started when it returned; down: disconnect() has been called and the application
\* has not called connect() or connectPresence() since; cancelled:
\* disconnect() has been called and no initialize() called by the application
\* has succeeded since; disc: a socket has raised 'disconnect' since
\* scheduleTokenRefresh was last called; fire: the last firing of the refresh
\* timer, with the time since it was set (delay), the delay it was set with
\* (ms), whether a 'disconnect' had occurred since (disc), whether the socket
\* was connected and whether initialize() was called (started); send, sent: the
\* last sendMessage call and the payload it emitted; closed: the number of
\* onConversationClosed calls; msgLog: the message events received, each with
\* its arrival time t, the number n of onMessage calls it caused, whether a
\* listener ran the dedup check on it (checked), whether the check recorded
\* its key anew (fresh), and whether the conversation filter of the listeners
\* lets it pass (pass); event: the last conversation discovery or
\* message event (ev), with the socket it came on (kind), its conversation id
\* (cid), currentRoom and conversationId before it (room, known), the number
\* n of onMessage calls it caused, conversationId and currentRoom after it and
\* whether the server then has a join request for conversation room cid
\* (joined), the number of join:conversation requests it caused (joins) and
\* whether a once('joined') handler of an earlier handover was still waiting
\* for its confirmation (pending);
\* sched: the last successful initialize(), with the lifetime of its token in
\* ms, whether a timer was pending before it (had), the number of timers
\* pending after it and whether the refresh timer is then pending and due at
\* 80% of the lifetime (timer); lost: the network or the server closed the
\* connection and since then no connection attempt has had an outcome, no
\* connect() has created a socket and disconnect() has not been called;
\* refresh: the last continuation of the timer body after its initialize(),
\* with the result of the initialize(), whether the socket was connected
\* then, whether the continuation created a socket and the number of
\* initialize() calls in flight after it; arrived: the payload of the last
\* 'message' event; delivered: the message the last onMessage call was given
\* for it; insert: the last markMessageProcessed call of the event being
\* dispatched, with its key, whether the cache then holds the key with the
\* current time (recorded), whether the cache held an entry older than the
\* TTL before it was cleaned (had), the entries older than the TTL it holds
\* after (stale) and the number n of onMessage calls the event had caused
\* before the insert; seen: the last message event with its dedup key,
\* whether a listener ran the dedup check on it (checked), whether its key
\* was then held as processed (dup), the insert it caused if any, whether
\* the conversation filter lets it pass and the number n of onMessage calls.
InitObs ==
  [confirmed |-> {}, open |-> None, attempt |-> None, reinit |-> FALSE,
   auto |-> 0, insert |-> None, seen |-> None, event |-> None, sched |-> None, arrived |-> None, delivered |-> None, refresh |-> None, lost |-> FALSE, conn |-> None, errors |-> 0, fail |-> None, disc |-> FALSE, down |-> FALSE, cancelled |-> FALSE, fire |-> None, send |-> None, sent |-> None, msgLog |-> <<>>, closed |-> 0]

\* The hook before its effect has run: useRef(null) three times.  created:
\* the effect has made the instance, whose callbacks are the hook's; wsRef:
\* wsRef.current is set; intervals: the setInterval timers not cleared.
InitHook ==
  [created |-> FALSE, wsRef |-> FALSE, pollingIntervalRef |-> 0, intervals |-> {},
   isLoading |-> TRUE, cleaned |-> FALSE]

\* No sendMessage call of ChatAPI has been made.  log: the status of every
\* response of the call so far; requests: the fetch calls it has made.
InitApi ==
  [pc |-> "idle", attempt |-> 0, requests |-> 0, log |-> <<>>, lastError |-> Undef,
   delay |-> 0, result |-> None]

InitSlots(tenants, watched, slots) ==
  /\ watch = watched
  /\ hook = InitHook
  /\ api = InitApi
  /\ now = TickMs
  /\ ws \in {InitWs(t) : t \in tenants}
  /\ socks = [s \in 1..slots |-> FreeSock]
  /\ inits = <<>>
  /\ timers = {}
  /\ tokens = <<>>
  /\ obs = InitObs

InitWith(tenants, watched) == InitSlots(tenants, watched, MaxSockets)

(***************************************************************************)
(* Actions: calls made by the application                                  *)
(***************************************************************************)
Initialize == Apply(StartInitialize(M, "caller")) /\ UNCHANGED now

\* A call by the application, as opposed to one the client makes on its own
Caller(m) == [m EXCEPT !.obs.down = FALSE, !.obs.auto = 0]

Connect == Apply(connect(Caller(M))) /\ UNCHANGED now

ConnectPresence == Apply(connectPresence(Caller(M), PresenceToken)) /\ UNCHANGED now

\* connectPresence() as the page calls it on load, before any socket exists
PageLoad == ws.socket = 0 /\ ConnectPresence

Disconnect == Apply(disconnect(M)) /\ UNCHANGED now

SendMessage == Apply(sendMessage(M)) /\ UNCHANGED now

SwitchToConversationRoom ==
  \E cid \in ConvIds : Apply(switchToConversationRoom(M, cid)) /\ UNCHANGED now

(***************************************************************************)
(* Actions: the gateway answers a pending /webchat/init call               *)
(***************************************************************************)
Response(expires_in, tenant_id, integration_id, jwt_tenant_id, jwt_integration_id) ==
  [expires_in |-> expires_in, tenant_id |-> tenant_id, integration_id |-> integration_id,
   jwt_tenant_id |-> jwt_tenant_id, jwt_integration_id |-> jwt_integration_id]

RemoveAt(seq, i) == [j \in 1..(Len(seq) - 1) |-> IF j < i THEN seq[j] ELSE seq[j + 1]]

InitializeDone(responses) ==
  \E i \in 1..Len(inits), data \in responses :
    LET m == [M EXCEPT !.inits = RemoveAt(@, i),
                       !.obs.cancelled = @ /\ inits[i] # "caller"]
    IN Apply(Continue(InitializeSucceeds(m, data), inits[i], TRUE)) /\ UNCHANGED now

InitializeFailed ==
  \E i \in 1..Len(inits) :
    LET m == [M EXCEPT !.inits = RemoveAt(@, i), !.obs.errors = 0]
        failed == InitializeFails(m)
        after == Continue(failed, inits[i], FALSE)
    IN Apply([after EXCEPT !.obs.errors = 0,
                           !.obs.fail = [errors |-> failed.obs.errors,
                                         same |-> Program(failed) = Program(m),
                                         retried |-> Len(after.inits) > Len(m.inits)]])
       /\ UNCHANGED now

(***************************************************************************)
(* Actions: transport events of a socket                                   *)
(***************************************************************************)
SockConnect ==
  \E s \in SockIds :
    /\ socks[s].st = "connecting"
    /\ Apply(SocketOpens(M, s))
    /\ UNCHANGED now

\* 'connect_error': the manager makes reconnectionAttempts further attempts
\* and then gives up.
SockConnectError ==
  \E s \in SockIds :
    /\ socks[s].st = "connecting"
    /\ ws.reconnectAttempts < MaxErrors
    /\ LET sk == socks[s]
           m1 == [M EXCEPT !.socks[s] =
                              IF sk.tries < maxReconnectAttempts
                                THEN [sk EXCEPT !.tries = @ + 1, !.auto = TRUE]
                                ELSE Closed(sk, "closed"),
                           !.obs.attempt =
                              IF sk.auto THEN [via |-> "retry", token |-> sk.token,
                                               stale |-> obs.reinit]
                              ELSE @,
                           !.obs.auto = IF sk.auto THEN @ + 1 ELSE @,
                           !.obs.lost = FALSE]
       IN Apply(IF sk.attached
                  THEN OnError([m1 EXCEPT !.ws.reconnectAttempts = @ + 1])
                  ELSE m1)
    /\ UNCHANGED now

\* The network drops the connection ('transport close'): the socket raises
\* 'disconnect' and the manager makes the first of its reconnectionAttempts
\* attempts with the socket's options.
SockDrop ==
  \E s \in SockIds :
    /\ socks[s].st = "connected"
    /\ Apply(OnDisconnect([M EXCEPT !.socks[s] = [Closed(@, "connecting")
                                                    EXCEPT !.auto = TRUE, !.tries = 1],
                                    !.obs.lost = TRUE],
                          s, "transport close"))
    /\ UNCHANGED now

\* The server closes the connection ('io server disconnect'): no automatic
\* reconnection follows.
SockServerDisconnect ==
  \E s \in SockIds :
    /\ socks[s].st = "connected"
    /\ Apply(OnDisconnect([M EXCEPT !.socks[s] = Closed(@, "closed"),
                                    !.obs.lost = TRUE],
                          s, "io server disconnect"))
    /\ UNCHANGED now

(***************************************************************************)
(* Actions: events the server sends on a connected socket                  *)
(***************************************************************************)
Receives(s) == socks[s].st = "connected" /\ socks[s].attached

Joined ==
  \E s \in SockIds :
    /\ Receives(s)
    /\ socks[s].joinedQ # <<>>
    /\ LET by == Head(socks[s].joinedQ)
           m1 == [M EXCEPT !.socks[s].joinedQ = Tail(@), !.socks[s].once = <<>>,
                           !.obs.confirmed = {}]
       IN Apply(RunOnce(m1, socks[s].once, by))
    /\ UNCHANGED now

\* The conversation discovery event ev with conversation id cid arrives on
\* socket s: setupPresenceEventListeners has listeners for it, connect() has
\* none.
Discovers(m, s, ev, cid, handled) ==
  LET after == IF m.socks[s].kind = "presence" THEN handled ELSE m
  IN [after EXCEPT !.obs.event =
        [ev |-> ev, kind |-> m.socks[s].kind, cid |-> cid,
         room |-> m.ws.currentRoom, known |-> m.ws.conversationId, n |-> 0,
         conversationId |-> after.ws.conversationId,
         currentRoom |-> after.ws.currentRoom,
         joined |-> ConversationRoom(cid) \in after.socks[s].rooms,
         joins |-> Len(after.socks[s].joinedQ) - Len(m.socks[s].joinedQ),
         pending |-> m.socks[s].once # <<>>]]

SessionUpdate ==
  \E s \in SockIds, cid \in ConvIds \cup {Undef} :
    /\ Receives(s)
    /\ Apply(Discovers(M, s, "session:update", cid, OnSessionUpdate(M, cid)))
    /\ UNCHANGED now

ConversationCreated ==
  \E s \in SockIds, cid \in ConvIds :
    /\ Receives(s)
    /\ Apply(Discovers(M, s, "conversation:created", cid,
                       OnConversationCreated(M, cid)))
    /\ UNCHANGED now

ConversationNew ==
  \E s \in SockIds, cid \in ConvIds :
    /\ Receives(s)
    /\ Apply(Discovers(M, s, "conversation:new", cid,
                       OnConversationCreated(M, cid)))
    /\ UNCHANGED now

ConversationUpdate ==
  \E s \in SockIds, cid \in ConvIds :
    /\ Receives(s)
    /\ Apply(Discovers(M, s, "conversation:update", cid,
                       OnConversationUpdate(M, cid)))
    /\ UNCHANGED now

\* 'conversation:closed' with conversation id cid arrives on socket s; n is
\* the number of onConversationClosed calls it causes.
ConversationClosed ==
  \E s \in SockIds, cid \in ConvIds :
    /\ Receives(s)
    /\ LET m0 == [M EXCEPT !.obs.closed = 0]
           handled == Discovers(m0, s, "conversation:closed", cid,
                                OnConversationClosed(m0, cid))
       IN Apply([handled EXCEPT !.obs.event.n = handled.obs.closed])
    /\ UNCHANGED now

MessageEvent(events, names) ==
  \E s \in SockIds, ev \in events, n \in names :
    /\ Receives(s)
    /\ Len(obs.msgLog) < MaxLog
    /\ LET sk == socks[s]
           key == getMessageKey(Raw(n))
           checks == \/ sk.conv > 0
                     \/ sk.base /\ sk.kind = "chat"
                     \/ sk.base /\ sk.kind = "presence"
                        /\ ~InConversationRoom(ws.currentRoom)
           m0 == [M EXCEPT !.obs.arrived = Raw(n),
                           !.obs.delivered = None,
                           !.obs.msgLog =
                     Append(@, [raw |-> n, t |-> now, n |-> 0,
                                checked |-> ev # "message" /\ checks,
                                fresh |-> FALSE,
                                pass |-> \/ sk.base /\ sk.kind = "chat"
                                         \/ ConversationFilter(M, Raw(n))]),
                           !.obs.insert = None]
           m1 == Dispatch(m0, Listeners(sk), ev, Raw(n))
           cache == m1.ws.processedMessageKeys
           cid == Raw(n).conversation_id
       IN Apply([m1 EXCEPT !.obs.msgLog[Len(m0.obs.msgLog)].fresh =
                   /\ ev # "message"
                   /\ ~hasProcessedMessage(M, key)
                   /\ key \in DOMAIN cache
                   /\ cache[key] = now,
                 !.obs.event =
                   [ev |-> ev, kind |-> sk.kind, cid |-> cid,
                    room |-> ws.currentRoom, known |-> ws.conversationId,
                    n |-> m1.obs.msgLog[Len(m0.obs.msgLog)].n,
                    conversationId |-> m1.ws.conversationId,
                    currentRoom |-> m1.ws.currentRoom,
                    joined |-> ConversationRoom(cid) \in m1.socks[s].rooms,
                    joins |-> Len(m1.socks[s].joinedQ) - Len(sk.joinedQ),
                    pending |-> sk.once # <<>>],
                 !.obs.seen =
                   [ev |-> ev, key |-> key,
                    checked |-> ev # "message" /\ checks,
                    dup |-> hasProcessedMessage(M, key),
                    insert |-> m1.obs.insert,
                    pass |-> m0.obs.msgLog[Len(m0.obs.msgLog)].pass,
                    n |-> m1.obs.msgLog[Len(m0.obs.msgLog)].n]])
    /\ UNCHANGED now

(***************************************************************************)
(* Actions: time                                                           *)
(***************************************************************************)
TimerFires ==
  \E t \in timers :
    /\ t.due <= now
    /\ LET m0 == [M EXCEPT !.timers = @ \ {t}]
           m1 == RefreshTimerBody(m0)
       IN Apply([m1 EXCEPT !.obs.fire =
                   [delay |-> now - t.set, ms |-> t.ms, disc |-> obs.disc,
                    connected |-> Connected(m0, m0.ws.socket),
                    started |-> Len(m1.inits) > Len(m0.inits)]])
    /\ UNCHANGED now

\* A 'message' event with payload raw arrives on a connected socket: the
\* listener of connect() and the listeners of setupMessageEventListeners
\* give it to handleMessage.
PlainMessage(raws) ==
  \E s \in SockIds, raw \in raws :
    /\ Receives(s)
    /\ LET m0 == [M EXCEPT !.obs.msgLog =
                     <<[raw |-> "message", t |-> now, n |-> 0, checked |-> FALSE,
                        fresh |-> FALSE, pass |-> ConversationFilter(M, raw)]>>,
                           !.obs.arrived = raw,
                           !.obs.delivered = None]
       IN Apply(Dispatch(m0, Listeners(socks[s]), "message", raw))
    /\ UNCHANGED now

Min(a, b) == IF a < b THEN a ELSE b

\* Time passes until the next pending timer is due.
Wait ==
  /\ now < MaxTime
  /\ timers # {}
  /\ \A t \in timers : t.due > now
  /\ now' = CHOOSE d \in {t.due : t \in timers} : \A t \in timers : d <= t.due
  /\ UNCHANGED <<ws, socks, inits, timers, tokens, obs, watch, hook, api>>

\* Time passes, but not beyond the moment a pending timer is due.
Tick ==
  /\ now < MaxTime
  /\ \A t \in timers : t.due > now
  /\ LET next == now + TickMs
         dues == {t.due : t \in timers}
         due == IF dues = {} THEN next ELSE CHOOSE d \in dues : \A e \in dues : d <= e
     IN now' = Min(next, due)
  /\ UNCHANGED <<ws, socks, inits, timers, tokens, obs, watch, hook, api>>

(***************************************************************************)
(* useOnlineUsers (src/unnamed/part_005): the effect that sets up the       *)
(* WebSocket client, its cleanup and the polling fallback.  The React       *)
(* state other than isLoading (onlineUsers, error, isConnected) is left     *)
(* out.                                                                     *)
(***************************************************************************)
\* The effect runs (tenantId set, enableWebSocket): initializeWebSocket()
\* makes the instance and is suspended in `await wsRef.current.initialize()`;
\* then the initial fetchOnlineUsers() starts.
Mount ==
  /\ ~hook.created
  /\ Apply(StartInitialize(
             [M EXCEPT !.hook = [@ EXCEPT !.created = TRUE, !.wsRef = TRUE,
                                          !.isLoading = TRUE]],
             "hook"))
  /\ UNCHANGED now

\* The function the effect returns, lines 193-202
Cleanup ==
  /\ hook.created
  /\ ~hook.cleaned
  /\ LET m1 == IF hook.wsRef THEN [disconnect(M) EXCEPT !.hook.wsRef = FALSE] ELSE M
         m2 == IF m1.hook.pollingIntervalRef # 0
                 THEN [m1 EXCEPT !.hook.intervals = @ \ {m1.hook.pollingIntervalRef},
                                 !.hook.pollingIntervalRef = 0]
                 ELSE m1
     IN Apply([m2 EXCEPT !.hook.cleaned = TRUE])
  /\ UNCHANGED now

\* A polling interval fires: fetchOnlineUsers() sets isLoading and fetches
PollFires ==
  /\ hook.intervals # {}
  /\ Apply([M EXCEPT !.hook.isLoading = TRUE])
  /\ UNCHANGED now

\* getOnlineUsers() settles: the finally block of fetchOnlineUsers
FetchDone ==
  /\ hook.created
  /\ hook.isLoading
  /\ Apply([M EXCEPT !.hook.isLoading = FALSE])
  /\ UNCHANGED now

(***************************************************************************)
(* ChatAPI.sendMessage (src/lib/api.ts, 294-396): the POST to               *)
(* /webchat/message and its retry loop.  pc is the position of the call:    *)
(* "await" at `await fetch(...)`, "backoff" at the setTimeout promise.      *)
(***************************************************************************)
HttpStatuses == {200, 400, 404, 500, 503}

\* What `await fetch(...)` gives: a response with a status, or a rejection
\* (network error), for which status is 0.
ApiResponses ==
  {[thrown |-> FALSE, status |-> c] : c \in HttpStatuses}
    \cup {[thrown |-> TRUE, status |-> 0]}

\* response.ok
ResponseOk(status) == status >= 200 /\ status < 300

\* response.status >= 400 && response.status < 500
ClientError(status) == status >= 400 /\ status < 500

\* Math.min(1000 * Math.pow(2, attempt), 5000)
BackoffDelay(attempt) == Min(BackoffBaseMs * (2 ^ attempt), BackoffMaxMs)

\* sendMessage(text) up to its first `await fetch`
ApiSendMessage ==
  /\ api.pc \in {"idle", "done"}
  /\ now < MaxTime
  /\ api' = [InitApi EXCEPT !.pc = "await", !.requests = 1]
  /\ UNCHANGED <<now, ws, socks, inits, timers, tokens, obs, watch, hook>>

\* The fetch settles: a 2xx response returns success; anything else throws
\* inside the inner try, whose catch block sleeps and continues the loop
\* unless this was the last attempt; after the loop lastError is thrown to
\* the outer catch, which returns success: false.
ApiResponds(responses) ==
  \E r \in responses :
    /\ api.pc = "await"
    /\ LET logged == [api EXCEPT !.log = Append(@, r.status)]
           lastError == IF r.thrown THEN "network"
                        ELSE IF ClientError(r.status) THEN "client"
                        ELSE "server"
       IN api' =
            IF ~r.thrown /\ ResponseOk(r.status)
              THEN [logged EXCEPT !.pc = "done", !.result = [success |-> TRUE]]
            ELSE IF api.attempt < maxRetries - 1
              THEN [logged EXCEPT !.pc = "backoff", !.lastError = lastError,
                                  !.delay = BackoffDelay(api.attempt)]
            ELSE [logged EXCEPT !.pc = "done", !.lastError = lastError,
                                !.attempt = @ + 1,
                                !.result = [success |-> FALSE, error |-> lastError]]
    /\ UNCHANGED <<now, ws, socks, inits, timers, tokens, obs, watch, hook>>

\* The backoff timer ends: `continue`, attempt++ and the next fetch
ApiBackoffEnds ==
  /\ api.pc = "backoff"
  /\ now' = now + api.delay
  /\ api' = [api EXCEPT !.pc = "await", !.attempt = @ + 1, !.requests = @ + 1]
  /\ UNCHANGED <<ws, socks, inits, timers, tokens, obs, watch, hook>>

(***************************************************************************)
(* Specifications                                                          *)
(***************************************************************************)
\* The events that carry a chat message and pass the dedup check
MessageEvents == {"meta_message_created", "message:new"}

\* Room protocol: connections, conversation discovery and handover.  Time
\* stands still, so no token expires and no timer fires.
InitRoom == InitWith({Undef}, {"confirmed", "open"})

NextRoom ==
  \/ Connect
  \/ ConnectPresence
  \/ SockConnect
  \/ SockDrop
  \/ Joined
  \/ SessionUpdate
  \/ ConversationCreated
  \/ ConversationNew
  \/ ConversationUpdate
  \/ MessageEvent(MessageEvents, {"postC", "other"})
  \/ SwitchToConversationRoom

SpecRoom == InitRoom /\ [][NextRoom]_vars

\* Deduplication of events of different shapes: message events on the
\* sockets of connectPresence() and connect() while time passes.
DedupNames == {"pre", "post", "bot", "system"}

InitDedup == InitWith({Undef}, {"msgLog"})

NextDedup ==
  \/ ConnectPresence
  \/ Connect
  \/ SockConnect
  \/ MessageEvent(MessageEvents, DedupNames)
  \/ Tick

SpecDedup == InitDedup /\ [][NextDedup]_vars

\* The dedup window: events with one dedup key, with the conversation known
\* or not, while time passes.
WindowNames == {"postC"}

NextWindow ==
  \/ PageLoad
  \/ Connect
  \/ SockConnect
  \/ ConversationCreated
  \/ MessageEvent(MessageEvents, WindowNames)
  \/ Tick

SpecWindow == InitDedup /\ [][NextWindow]_vars

\* Answers of /webchat/init that differ in the token lifetime only.  A
\* lifetime of 50 seconds is within the expiry margin from the start and gets
\* no refresh timer; a lifetime of 100 seconds gets one after 80 seconds.
Lifetimes == {50, 100}

TokenResponses == {Response(e, Undef, Undef, Undef, Undef) : e \in Lifetimes}

\* Reconnection: initialize() answered or failing, the chat connection and
\* its loss by the network, by the server and by disconnect().  Time stands
\* still.
InitReconnect == InitWith({Undef}, {"attempt", "reinit"})

NextReconnect ==
  \/ Initialize
  \/ InitializeDone(TokenResponses)
  \/ InitializeFailed
  \/ Connect
  \/ Disconnect
  \/ SockConnect
  \/ SockDrop
  \/ SockServerDisconnect

SpecReconnect == InitReconnect /\ [][NextReconnect]_vars

\* Token refresh: initialize() answered or failing, the chat connection, its
\* loss by the network, and the refresh timer, while time passes.
InitRefresh == InitWith({Undef}, {"disc", "fire"})

NextRefresh ==
  \/ Initialize
  \/ InitializeDone(TokenResponses)
  \/ InitializeFailed
  \/ Connect
  \/ SockConnect
  \/ SockDrop
  \/ TimerFires
  \/ Tick

SpecRefresh == InitRefresh /\ [][NextRefresh]_vars

\* Sending: the tenant id given to the constructor absent, a placeholder or
\* real; /webchat/init answering with or without tenant and integration ids
\* in its body and in the token; the connections of connectPresence() and
\* connect(), opening; sendMessage().  Time stands still.
SendTenants == {Undef, "Tenant-ID", "t0"}

SendResponses ==
  {Response(100, t, i, jwt[1], jwt[2]) :
     t \in {Undef, "TENANT_ID", "t1"}, i \in {Undef, "i1"},
     jwt \in {<<Undef, Undef>>, <<"t2", "i2">>}}

InitSend == InitWith(SendTenants, {"send", "sent"})

NextSend ==
  \/ PageLoad
  \/ Initialize
  \/ InitializeDone(SendResponses)
  \/ Connect
  \/ SockConnect
  \/ SendMessage

SpecSend == InitSend /\ [][NextSend]_vars

\* Shutdown: initialize() answered or failing, the chat connection, its
\* loss by the network and by the server, the refresh timer and disconnect(),
\* while time passes.
InitShutdown == InitWith({Undef}, {"down", "cancelled"})

NextShutdown ==
  \/ Initialize
  \/ InitializeDone(TokenResponses)
  \/ InitializeFailed
  \/ Connect
  \/ Disconnect
  \/ SockConnect
  \/ SockServerDisconnect
  \/ TimerFires
  \/ Tick

SpecShutdown == InitShutdown /\ [][NextShutdown]_vars

\* Credentials: initialize() answered or failing and connect(), while time
\* passes and tokens expire.
InitCredential == InitWith({Undef}, {"conn"})

NextCredential ==
  \/ Initialize
  \/ InitializeDone(TokenResponses)
  \/ InitializeFailed
  \/ Connect
  \/ SockConnect
  \/ Tick

SpecCredential == InitCredential /\ [][NextCredential]_vars

\* Handshake: initialize() called by the application and by the disconnect
\* handler, answered or failing.  Time stands still.
InitHandshake == InitWith({Undef}, {"fail"})

NextHandshake ==
  \/ Initialize
  \/ InitializeDone(TokenResponses)
  \/ InitializeFailed
  \/ Connect
  \/ SockConnect
  \/ SockServerDisconnect

SpecHandshake == InitHandshake /\ [][NextHandshake]_vars

\* Retry: initialize() answered, the chat connection, failing connection
\* attempts and the loss of the connection by the network and by the server.
\* Time stands still.
InitRetry == InitWith({Undef}, {"auto"})

NextRetry ==
  \/ Initialize
  \/ InitializeDone(TokenResponses)
  \/ Connect
  \/ SockConnect
  \/ SockConnectError
  \/ SockDrop
  \/ SockServerDisconnect

SpecRetry == InitRetry /\ [][NextRetry]_vars

\* Conversation discovery on both kinds of connection: the socket of
\* connectPresence() and the socket that a later connect() puts in its
\* place, with the discovery events and the three message events arriving
\* on either.  Time stands still, and the server's 'joined' confirmations
\* stay in flight.
AllMessageEvents == MessageEvents \cup {"message"}

DiscoveryEvents ==
  {"session:update", "conversation:created", "conversation:new",
   "conversation:update"}

InitDiscovery == InitWith({Undef}, {"event"})

NextDiscovery ==
  \/ ConnectPresence
  \/ Connect
  \/ SockConnect
  \/ SockDrop
  \/ SessionUpdate
  \/ ConversationCreated
  \/ ConversationNew
  \/ ConversationUpdate
  \/ MessageEvent(AllMessageEvents, {"postC", "other"})

SpecDiscovery == InitDiscovery /\ [][NextDiscovery]_vars

\* Token lifetimes around the one-minute thresholds: initialize() answered
\* with tokens of 50, 70 and 100 seconds while time passes and the refresh
\* timer fires.  No connection is made, so the timer body does nothing.
RefreshLifetimes == {50, 70, 100}

LifetimeResponses == {Response(e, Undef, Undef, Undef, Undef) : e \in RefreshLifetimes}

InitLifetime == InitWith({Undef}, {"sched"})

NextLifetime ==
  \/ Initialize
  \/ InitializeDone(LifetimeResponses)
  \/ TimerFires
  \/ Tick

SpecLifetime == InitLifetime /\ [][NextLifetime]_vars

\* Closures during the proactive refresh: a token of the default lifetime
\* (expires_in missing), whose refresh timer fires while more than a minute
\* of lifetime remains, and a connection that the network drops before,
\* during or after the refresh's initialize().  The transport reports the
\* outcome of every connection attempt and a timer that is due fires; the
\* gateway may answer an initialize() at any time or never.
DefaultResponses == {Response(0, Undef, Undef, Undef, Undef)}

InitReopen == InitWith({Undef}, {"lost"})

NextReopen ==
  \/ Initialize
  \/ InitializeDone(DefaultResponses)
  \/ Connect
  \/ SockConnect
  \/ SockDrop
  \/ TimerFires
  \/ Wait

SpecReopen ==
  /\ InitReopen
  /\ [][NextReopen]_vars
  /\ WF_vars(SockConnect)
  /\ WF_vars(TimerFires)

\* The proactive refresh next to every way a connection ends: the network,
\* the server and disconnect(), before, during and after the refresh's
\* initialize(), which succeeds or fails.
InitOverlap == InitWith({Undef}, {"refresh", "fire"})

NextOverlap ==
  \/ Initialize
  \/ InitializeDone(DefaultResponses)
  \/ InitializeFailed
  \/ Connect
  \/ Disconnect
  \/ SockConnect
  \/ SockDrop
  \/ SockServerDisconnect
  \/ TimerFires
  \/ Wait

SpecOverlap == InitOverlap /\ [][NextOverlap]_vars

\* The normalizer on payloads of every shape: each of the three id fields,
\* the three text fields and the three timestamp fields present or absent,
\* with every sender_type, arriving as 'message' events on the sockets of
\* connectPresence() and connect().
Field(name) == {Undef, name}

SenderTypes == {Undef, "user", "agent", "human", "bot", "system", "ai"}

RawEvents ==
  {[NoFields EXCEPT !.message_id = a, !.messageId = b, !.id = c, !.text = d,
                    !.message_text = e, !.message = f, !.sender_type = st] :
     a \in Field("msg-42"), b \in Field("msg-43"), c \in Field("evt-1"),
     d \in Field("hi"), e \in Field("hello"), f \in Field("hey"),
     st \in SenderTypes}
  \cup
  {[NoFields EXCEPT !.timestamp = a, !.created_at = b, !.inserted_at = c,
                    !.sender_type = st] :
     a \in Field("t1"), b \in Field("t2"), c \in Field("t3"),
     st \in SenderTypes}

InitNormalize == InitWith({Undef}, {"arrived", "delivered"})

NextNormalize ==
  \/ ConnectPresence
  \/ Connect
  \/ SockConnect
  \/ PlainMessage(RawEvents)

SpecNormalize == InitNormalize /\ [][NextNormalize]_vars

\* The end of a conversation: a conversation made known on the socket of
\* connectPresence(), the connection dropped by the network, connect()
\* called by the application, and 'conversation:closed' arriving on either
\* socket.  Time stands still.
InitClosed == InitWith({Undef}, {"event"})

NextClosed ==
  \/ ConnectPresence
  \/ Connect
  \/ SockConnect
  \/ SockDrop
  \/ ConversationCreated
  \/ ConversationClosed

SpecClosed == InitClosed /\ [][NextClosed]_vars

\* The hook from mount to unmount: the effect runs once and its cleanup
\* once, before, while or after the instance's initialize() is answered
\* or fails, its connection opens or is closed by the network or by the
\* server, and its refresh timer fires.
HookTenants == {"t0"}

InitHookSpec == InitWith(HookTenants, {})

NextHook ==
  \/ Mount
  \/ Cleanup
  \/ InitializeDone(DefaultResponses)
  \/ InitializeFailed
  \/ SockConnect
  \/ SockDrop
  \/ SockServerDisconnect
  \/ TimerFires
  \/ Wait
  \/ PollFires
  \/ FetchDone

SpecHook == InitHookSpec /\ [][NextHook]_vars

\* ChatAPI.sendMessage called again and again, every fetch answered with
\* any of the statuses or rejected.
InitSendApi == InitWith({Undef}, {})

NextSendApi ==
  \/ ApiSendMessage
  \/ ApiResponds(ApiResponses)
  \/ ApiBackoffEnds

SpecSendApi == InitSendApi /\ [][NextSendApi]_vars

\* Sockets that outlive their replacement: connectPresence() and connect()
\* called while the previous socket is connecting or connected, with room
\* for two Socket objects at a time.  Time stands still.
InitLive == InitSlots({Undef}, {}, MaxLiveSockets)

NextLive ==
  \/ ConnectPresence
  \/ Connect
  \/ Disconnect
  \/ SockConnect
  \/ SockDrop

SpecLive == InitLive /\ [][NextLive]_vars

\* Normalizing twice: meta_message_created and message:new events, whose
\* listeners normalize the payload before handleMessage normalizes it
\* again, with payloads that have a sender id and a sender name or neither.
\* Time stands still.
RenormNames == {"pre", "postC", "named"}

InitRenorm == InitWith({Undef}, {"arrived", "delivered"})

NextRenorm ==
  \/ ConnectPresence
  \/ Connect
  \/ SockConnect
  \/ MessageEvent(MessageEvents, RenormNames)

SpecRenorm == InitRenorm /\ [][NextRenorm]_vars

\* The refresh timer through overlapping initialize() calls answered with
\* short and long token lifetimes, the chat connection, firings of the
\* timer (which start a further initialize() when the socket is connected)
\* and disconnect(), with time passing from one timer's due time to the
\* next.
InitTimer == InitWith({Undef}, {})

NextTimer ==
  \/ Initialize
  \/ InitializeDone(TokenResponses)
  \/ Connect
  \/ SockConnect
  \/ Disconnect
  \/ TimerFires
  \/ Wait

SpecTimer == InitTimer /\ [][NextTimer]_vars

\* The dedup cache over time: events of two dedup keys, of different
\* conversations, on the socket of connectPresence() and on the socket that
\* connect() puts in its place, while time passes and entries expire.
CacheNames == {"postC", "other"}

InitCache == InitWith({Undef}, {"seen"})

NextCache ==
  \/ PageLoad
  \/ Connect
  \/ SockConnect
  \/ MessageEvent(MessageEvents, CacheNames)
  \/ Tick

SpecCache == InitCache /\ [][NextCache]_vars

(***************************************************************************)
(* Claims                                                                  *)
(***************************************************************************)

\* C1: Handover ordering.  Whenever a 'joined' confirmation makes the client
\* emit the leave:session request of a handover into conversation X, the
\* confirmation received is the one for conversation room X.
C1_LeaveAfterOwnConfirmation ==
  \A h \in obs.confirmed : h.left => h.handover = h.by

\* The rooms the client has asked to join and not asked to leave on its
\* current connection, and whether a handover awaits its confirmation.
Membership == IF ws.socket = 0 THEN {} ELSE socks[ws.socket].rooms

HandoverPending ==
  ws.socket # 0 /\ (socks[ws.socket].once # <<>> \/ socks[ws.socket].joinedQ # <<>>)

\* C2: Room membership.  The rooms the client has asked to join and not asked
\* to leave on its current connection are at least one and at most two, and
\* exactly one once no handover awaits its confirmation.
C2_RoomMembership ==
  (ws.socket # 0 /\ socks[ws.socket].st = "connected") =>
    /\ Cardinality(Membership) >= 1
    /\ Cardinality(Membership) <= 2
    /\ (~HandoverPending => Cardinality(Membership) = 1)

\* The preconditions of the last sendMessage call were not met.
SendUnmet ==
  \/ ~obs.send.connected
  \/ Falsy(obs.send.tenantId)
  \/ IsPlaceholder(obs.send.tenantId)
  \/ Falsy(obs.send.integrationId)

\* C7: Send precondition enforcement.  A sendMessage call made while the
\* socket is not connected, or the tenant id is missing or a placeholder, or
\* the integration id is missing, fails with an error, emits no 'message'
\* and changes no connection, room or token state; every 'message' emitted
\* carries a non-placeholder tenant id and an integration id, each under
\* both of its names.
C7_SendPrecondition ==
  /\ (obs.send # None /\ SendUnmet) =>
        /\ obs.send.result # "ok"
        /\ obs.send.unchanged
        /\ obs.sent = None
  /\ obs.sent # None =>
        /\ Valid(obs.sent.tenantId)
        /\ obs.sent.tenant_id = obs.sent.tenantId
        /\ ~Falsy(obs.sent.integrationId)
        /\ obs.sent.integration_id = obs.sent.integrationId

\* Witness of C7: a send refused on an open connection because the tenant id
\* is a placeholder, after which the connection is still open.
C7_Witness ==
  /\ obs.send # None
  /\ obs.send.connected
  /\ IsPlaceholder(obs.send.tenantId)
  /\ obs.send.result = "tenantId is a placeholder value"
  /\ socks[ws.socket].st = "connected"

\* C8: Room choice on connect.  Every 'connect' event makes the client join
\* the conversation room if a conversation id is known and the session room
\* otherwise.
C8_RoomChoiceOnConnect ==
  obs.open # None =>
    obs.open.joined = (IF obs.open.known THEN "conversation" ELSE "session")

\* The message events received so far, and what the normalizer and the key
\* function make of the payload of each.
Log == obs.msgLog
Canonical(n) == transformMessageNewToMessage(Raw(n))
Triple(n) == <<Canonical(n).conversation_id, Canonical(n).sender, Canonical(n).text>>
Key(n) == getMessageKey(Raw(n))

\* C3: Dedup within the window.  Of the first two events that normalize to
\* one (conversationId, sender role, text), when they are distinct raw events
\* less than 60 seconds apart, exactly one is delivered to onMessage.
C3_DedupWithinWindow ==
  \A i, j \in 1..Len(Log) :
    ( /\ i < j
      /\ Log[i].raw # Log[j].raw
      /\ Triple(Log[i].raw) = Triple(Log[j].raw)
      /\ Log[j].t - Log[i].t < MESSAGE_CACHE_TTL
      /\ \A k \in 1..(j - 1) : k # i => Triple(Log[k].raw) # Triple(Log[i].raw) )
    => Log[i].n + Log[j].n = 1

\* Event j comes more than 60 seconds after event i with the same dedup
\* key; i is the first event with that key and the events with that key in
\* between were suppressed as duplicates.
Apart(i, j) ==
  /\ i < j
  /\ Key(Log[i].raw) = Key(Log[j].raw)
  /\ Log[j].t - Log[i].t > MESSAGE_CACHE_TTL
  /\ \A k \in 1..(i - 1) : Key(Log[k].raw) # Key(Log[i].raw)
  /\ \A k \in (i + 1)..(j - 1) :
       Key(Log[k].raw) = Key(Log[i].raw) => ~Log[k].fresh /\ Log[k].n = 0

\* C4 as stated: two events with the same dedup key more than 60 seconds
\* apart are both delivered to onMessage.
C4_BothDelivered ==
  \A i, j \in 1..Len(Log) : Apart(i, j) => Log[i].n >= 1 /\ Log[j].n >= 1

\* C4 as amended: two such events that reach a dedup check both pass it (each
\* is recorded anew, the second is not taken for a duplicate of the first),
\* and each is delivered to onMessage unless the conversation filter drops it.
Accepted(e) == e.checked => e.fresh /\ (e.pass => e.n >= 1)

C4_BothPassDedup ==
  \A i, j \in 1..Len(Log) : Apart(i, j) => Accepted(Log[i]) /\ Accepted(Log[j])

\* Witness of C4: two deliveries of one key more than 60 seconds apart with a
\* suppressed duplicate in between.
C4_Witness ==
  \E i, j, k \in 1..Len(Log) :
    /\ Apart(i, j) /\ i < k /\ k < j
    /\ Key(Log[k].raw) = Key(Log[i].raw)
    /\ Log[i].checked /\ Log[i].n = 1
    /\ Log[k].checked /\ Log[k].n = 0
    /\ Log[j].checked /\ Log[j].n = 1

\* C5: Normalization equivalence.  When the pre-persistence event and the
\* post-persistence event of one send have both arrived within the window,
\* they have the same dedup key, their canonical ids differ, and exactly one
\* of them was delivered to onMessage.
C5_NormalizationEquivalence ==
  \A i, j \in 1..Len(Log) :
    ( /\ i < j
      /\ {Log[i].raw, Log[j].raw} = {"pre", "post"}
      /\ Log[j].t - Log[i].t < MESSAGE_CACHE_TTL
      /\ \A k \in 1..(j - 1) : k # i => Log[k].raw \notin {"pre", "post"} )
    => /\ Key("pre") = Key("post")
       /\ Canonical("pre").id # Canonical("post").id
       /\ Log[i].n + Log[j].n = 1

\* C6: Token-driven reconnection.  Once a 'disconnect' has found reconnection
\* enabled and the token expired or the close server-initiated, no connection
\* attempt (by connect() or by the automatic retry of the transport) is made
\* before an initialize() has succeeded.
C6_NoStaleAttempt == obs.attempt # None => ~obs.attempt.stale

\* C9: Proactive refresh.  When no 'disconnect' has occurred since a
\* successful initialize() set the refresh timer, the timer fires 0.8 * E
\* after that initialize() and its firing invokes a fresh initialize().
C9_ProactiveRefresh ==
  (obs.fire # None /\ ~obs.fire.disc) =>
     /\ obs.fire.delay = obs.fire.ms
     /\ obs.fire.started

\* C10: Token validity.  Whenever the connection opened by connect() is open,
\* the token it was opened with has not expired.
C10_TokenValid ==
  \A s \in SockIds :
    (ws.socket = s /\ socks[s].st = "connected" /\ socks[s].kind = "chat")
      => now < tokens[socks[s].token]

\* C11: disconnect() is never undone.  After the application has called
\* disconnect() and until it calls connect() or connectPresence() again, the
\* client holds no socket and no socket is connecting or connected.
C11_DisconnectNotUndone ==
  obs.down => /\ ws.socket = 0
              /\ \A s \in SockIds : socks[s].st \notin {"connecting", "connected"}

\* C12: disconnect() cancels token refresh.  After disconnect() no refresh
\* timer is pending until an initialize() called by the application succeeds.
C12_NoTimerAfterDisconnect == obs.cancelled => timers = {}

\* C13: disconnect() is idempotent.  From every reachable state a call of
\* disconnect() leaves the client without socket, with reconnection disabled
\* and without timer, and a second call right after it raises no error and
\* changes nothing.
C13_DisconnectIdempotent ==
  LET once == disconnect(M)
      twice == disconnect(once)
  IN /\ once.ok /\ twice.ok
     /\ once.ws.socket = 0
     /\ ~once.ws.shouldReconnect
     /\ once.timers = {}
     /\ \A s \in SockIds : once.socks[s].st \in {"free", "closed"} \/ s # ws.socket
     /\ Program(twice) = Program(once)

\* Witness of C13: disconnect() has been called on a client that had a
\* token and a socket, and calling it again changes nothing.
C13_Witness ==
  /\ ~ws.shouldReconnect
  /\ ws.socket = 0
  /\ ws.wsToken # 0
  /\ \E s \in SockIds : socks[s].st = "closed"
  /\ Program(disconnect(M)) = Program(M)

\* C14: connect() fails fast without a valid credential.  A connect() call
\* made without token or server URL, or with a token for which
\* isTokenExpired() holds, calls onError and creates no socket.
C14_ConnectFailsFast ==
  (obs.conn # None /\ (~obs.conn.credential \/ obs.conn.expired)) =>
     obs.conn.error /\ ~obs.conn.created

\* C15: Handshake failure.  A failing initialize() calls onError exactly
\* once, leaves token, endpoint, expiry, tenant and integration ids, sockets
\* and the pending refresh timer as they were, and starts no further
\* initialize().
C15_HandshakeFailure ==
  obs.fail # None =>
     /\ obs.fail.errors = 1
     /\ obs.fail.same
     /\ ~obs.fail.retried

\* Witness of C15: an initialize() has failed on a client that holds a token
\* and a pending refresh timer, and both are still there.
C15_Witness ==
  /\ obs.fail # None
  /\ obs.fail.same
  /\ ws.wsToken # 0
  /\ \E t \in timers : t.id = ws.tokenRefreshTimer

\* C16: Bounded reconnection.  The connection attempts the client has made
\* on its own since the last successful open and the last connect() of the
\* application are at most maxReconnectAttempts.
C16_BoundedReconnection == obs.auto <= maxReconnectAttempts

\* C17: Foreign-conversation messages are dropped.  A message event whose
\* conversation id differs from the conversation id the client knows causes
\* no onMessage call and leaves conversationId alone.
C17_ForeignDropped ==
  (/\ obs.event # None
   /\ obs.event.ev \in AllMessageEvents
   /\ ~Falsy(obs.event.known)
   /\ ~Falsy(obs.event.cid)
   /\ obs.event.cid # obs.event.known)
  => obs.event.n = 0 /\ obs.event.conversationId = obs.event.known

\* C18: Conversation-establishing message.  A meta_message_created or
\* message:new event with a conversation id that arrives while the client is
\* in the session room and knows no conversation id makes the client adopt
\* the id, ask to join the conversation room and call onMessage exactly once.
C18_EstablishingMessage ==
  (/\ obs.event # None
   /\ obs.event.ev \in MessageEvents
   /\ Falsy(obs.event.known)
   /\ ~Falsy(obs.event.cid)
   /\ ~InConversationRoom(obs.event.room))
  => /\ obs.event.conversationId = obs.event.cid
     /\ obs.event.joined
     /\ obs.event.n = 1

\* C19: Handover from the session room.  A discovery event, or a
\* meta_message_created or message:new event, with a conversation id that
\* arrives while the client is connected and in the session room leads to a
\* join request for that conversation room, on the socket of
\* connectPresence() and on the socket of connect().
C19_HandoverFromSessionRoom ==
  (/\ obs.event # None
   /\ obs.event.ev \in DiscoveryEvents \cup MessageEvents
   /\ ~Falsy(obs.event.cid)
   /\ ~InConversationRoom(obs.event.room))
  => obs.event.joined

\* C20: Changed conversation id.  A discovery event that announces a
\* conversation id other than the one of the conversation room the client
\* is in ends with conversationId and currentRoom at the new id.
C20_ChangedConversation ==
  (/\ obs.event # None
   /\ obs.event.ev \in DiscoveryEvents
   /\ InConversationRoom(obs.event.room)
   /\ ~Falsy(obs.event.cid)
   /\ obs.event.room # ConversationRoom(obs.event.cid))
  => /\ obs.event.conversationId = obs.event.cid
     /\ obs.event.currentRoom = ConversationRoom(obs.event.cid)

\* C21: No redundant rejoin.  A discovery event that announces the id of the
\* conversation room the client is already in causes no join:conversation
\* request and leaves conversationId and currentRoom alone.
C21_NoRedundantRejoin ==
  (/\ obs.event # None
   /\ obs.event.ev \in DiscoveryEvents
   /\ ~Falsy(obs.event.cid)
   /\ obs.event.known = obs.event.cid
   /\ obs.event.room = ConversationRoom(obs.event.cid))
  => /\ obs.event.joins = 0
     /\ obs.event.conversationId = obs.event.known
     /\ obs.event.currentRoom = obs.event.room

\* C22: isTokenExpired() is true exactly when no token expiry is recorded or
\* at most 60 seconds remain until tokenExpiresAt (or it has passed).
C22_IsTokenExpired ==
  isTokenExpired(M) <=>
    \/ ws.tokenExpiresAt = 0
    \/ ws.tokenExpiresAt - now <= ExpiryMarginMs

\* A token that has not expired yet but has at most 60 seconds left
C22_Witness ==
  /\ ws.tokenExpiresAt # 0
  /\ now < ws.tokenExpiresAt
  /\ ws.tokenExpiresAt - now <= ExpiryMarginMs
  /\ isTokenExpired(M)

\* C27: Refresh scheduling threshold.  After a successful initialize() the
\* refresh timer is pending, due at 80% of the token's lifetime, if the
\* lifetime is at least one minute; no timer is pending if it is shorter.
C27_RefreshThreshold ==
  obs.sched # None =>
    IF obs.sched.lifetime >= MinRefreshMs
      THEN obs.sched.timer /\ obs.sched.pending = 1
      ELSE ~obs.sched.timer /\ obs.sched.pending = 0

\* C23: Single delivery per inbound event.  One message event causes at most
\* one onMessage call, whatever connections and handovers came before it.
C23_SingleDelivery ==
  (obs.event # None /\ obs.event.ev \in AllMessageEvents) => obs.event.n <= 1

\* C24: Network closures lead back to reconnection.  After the network has
\* closed the connection the client eventually makes a connection attempt
\* (or disconnect() is called), whatever the proactive refresh does meanwhile.
C24_ClosureLeadsToReconnection == obs.lost ~> ~obs.lost

\* C25: Refresh and reconnection are serialized.  Of the initialize() calls
\* the client makes on its own (refresh timer, disconnect handler) at most
\* one is in flight.
C25_Serialized ==
  Cardinality({i \in DOMAIN inits : inits[i] \in {"timer", "handler"}}) <= 1

\* C26: Refresh never opens an unrequested connection.  A refresh timer that
\* fires while the socket is absent or not connected starts nothing, and the
\* continuation of the timer body creates a socket only if the socket was
\* connected when the refresh's initialize() completed.
C26_NoUnrequestedConnection ==
  /\ (obs.fire # None /\ ~obs.fire.connected) => ~obs.fire.started
  /\ (obs.refresh # None /\ ~obs.refresh.connected) => ~obs.refresh.created

\* The refresh's initialize() succeeded after the connection was lost, and
\* the continuation created no socket
C26_Witness ==
  /\ obs.refresh # None
  /\ obs.refresh.result
  /\ ~obs.refresh.connected
  /\ ~obs.refresh.created
  /\ \A s \in SockIds : socks[s].st # "connecting"

\* C28: Last writer wins.  An event that announces a conversation id other
\* than the known one while the confirmation of the earlier handover is
\* still awaited ends with conversationId and currentRoom at the new id.
C28_LastWriterWins ==
  (/\ obs.event # None
   /\ obs.event.ev \in DiscoveryEvents \cup AllMessageEvents
   /\ obs.event.pending
   /\ ~Falsy(obs.event.known)
   /\ ~Falsy(obs.event.cid)
   /\ obs.event.cid # obs.event.known)
  => /\ obs.event.conversationId = obs.event.cid
     /\ obs.event.currentRoom = ConversationRoom(obs.event.cid)

\* C29: Dedup key agrees with normalization.  Two received events have equal
\* dedup keys exactly when the canonical messages the normalizer makes of
\* them have the same (conversationId, sender role, text).
C29_KeyAgreesWithNormalization ==
  \A i, j \in 1..Len(Log) :
    Key(Log[i].raw) = Key(Log[j].raw) <=> Triple(Log[i].raw) = Triple(Log[j].raw)

\* The first of the values that is present, or else the default
FirstPresent(values, default) ==
  IF \A i \in DOMAIN values : values[i] = Undef THEN default
  ELSE values[CHOOSE i \in DOMAIN values :
                /\ values[i] # Undef
                /\ \A j \in 1..(i - 1) : values[j] = Undef]

C31_CachePruning ==
  obs.seen # None =>
    /\ obs.seen.insert # None =>
         /\ obs.seen.insert.stale = {}
         /\ obs.seen.insert.recorded
         /\ obs.seen.insert.key = obs.seen.key
         /\ obs.seen.insert.n = 0
    /\ (obs.seen.checked /\ ~obs.seen.dup) => obs.seen.insert # None

\* An insert that removed an expired entry, for an event the conversation
\* filter then dropped: the cache holds the key of the event alone
C31_Witness ==
  /\ obs.seen # None
  /\ obs.seen.insert # None
  /\ obs.seen.insert.had
  /\ ~obs.seen.pass
  /\ obs.seen.n = 0
  /\ DOMAIN ws.processedMessageKeys = {obs.seen.key}

\* C32: Conversation-closed notification.  A conversation:closed event that
\* arrives on a connected socket of the client causes exactly one
\* onConversationClosed call if its conversation id is the client's
\* conversation id and none otherwise, on the socket of connectPresence()
\* and on the socket of connect().
C32_ClosedNotified ==
  (obs.event # None /\ obs.event.ev = "conversation:closed") =>
     obs.event.n = (IF obs.event.cid = obs.event.known THEN 1 ELSE 0)

\* C33: ChatAPI.sendMessage does not retry client errors.  No request
\* follows a 4xx response of the call, a call whose last response is 4xx
\* ends with success = false, and a call makes at most 3 requests.
C33_NoRetryOnClientError ==
  /\ \A i \in 1..Len(api.log) : ClientError(api.log[i]) => api.requests = i
  /\ api.requests <= maxRetries
  /\ (api.pc = "done" /\ api.log # <<>> /\ ClientError(api.log[Len(api.log)]))
       => ~api.result.success

\* C34: useOnlineUsers cleanup.  Once the cleanup of the hook has run, no
\* polling interval is scheduled and no socket of its client is connecting
\* or connected; at most one polling interval is scheduled at any time.
C34_CleanupComplete ==
  /\ hook.cleaned =>
       /\ hook.intervals = {}
       /\ \A s \in SockIds : socks[s].st \notin {"connecting", "connected"}
  /\ Cardinality(hook.intervals) <= 1

\* C35: Callback after confirmation.  Every onConversationCreated(X) call is
\* made on the server's confirmation of the join of conversation room X,
\* never on the confirmation of another room's join.
C35_CallbackAfterConfirmation ==
  \A h \in obs.confirmed : h.by = h.handover

\* C36: Room and conversation id agree.  Whenever currentRoom is a
\* conversation room conversation:X, conversationId is X.
C36_RoomMatchesConversation ==
  InConversationRoom(ws.currentRoom) =>
    ws.currentRoom = ConversationRoom(ws.conversationId)

\* The sockets that are connecting or connected with the listeners of the
\* client attached
Live == {s \in SockIds : socks[s].st \in {"connecting", "connected"} /\ socks[s].attached}

\* C37: Single live socket.  At most one socket created by the client is
\* connecting or connected with listeners attached.
C37_SingleLiveSocket == Cardinality(Live) <= 1

\* The fields of the canonical message the claim is about
CanonicalFields == {"id", "text", "sender", "senderId", "senderName", "conversation_id"}

\* C38: Normalization is idempotent.  For the payload of every event
\* received, normalizing the normalized message again changes none of id,
\* text, sender, senderId, senderName and conversation_id, and the message
\* given to onMessage agrees on them with the payload normalized once.
C38_NormalizationIdempotent ==
  obs.arrived # None =>
    LET once == transformMessageNewToMessage(obs.arrived)
        twice == transformMessageNewToMessage(once)
    IN /\ \A f \in CanonicalFields : twice[f] = once[f]
       /\ obs.delivered # None =>
            \A f \in CanonicalFields : obs.delivered[f] = once[f]

\* C39: Single refresh timer.  At most one token-refresh timer is pending,
\* and a pending timer is the one tokenRefreshTimer names.
C39_SingleRefreshTimer ==
  /\ Cardinality(timers) <= 1
  /\ \A t \in timers : t.id = ws.tokenRefreshTimer

\* One timer is pending after disconnect() has been called, two
\* initialize() calls have succeeded and a further one is in flight
C39_Witness ==
  /\ Cardinality(timers) = 1
  /\ ~ws.shouldReconnect
  /\ Len(tokens) >= 2
  /\ inits # <<>>

====
